---- MODULE Spec2Model ----
(***************************************************************************)
(* Search over the posts table: the three stored procedures               *)
(* (search_posts, search_posts_semantic, search_posts_hybrid) and the      *)
(* /api/search route that calls them.                                      *)
(*                                                                         *)
(* Conventions                                                             *)
(*  - an SQL value that may be NULL is a set: {} is NULL, {v} is v;        *)
(*  - a text is a sequence of one-character strings;                       *)
(*  - numeric/float values of the RRF arithmetic are exact fractions       *)
(*    <<numerator, denominator>> with a positive denominator;              *)
(*  - job is the state of the embed-posts edge function, which writes the  *)
(*    embeddings the search reads;                                         *)
(*  - wherever SQL leaves the order of rows with equal sort keys open      *)
(*    (ORDER BY, ROW_NUMBER() OVER (ORDER BY ...)), every order that       *)
(*    respects the keys is a possible outcome.                             *)
(***************************************************************************)
EXTENDS Integers, Sequences, FiniteSets, TLC

VARIABLES posts, sql, pc, req, embedding, calls, resp, job

vars == <<posts, sql, pc, req, embedding, calls, resp, job>>

(***************************************************************************)
(* Bounds of the model                                                     *)
(***************************************************************************)
NumPosts == 3
MaxScore == 2
MaxTf == 1
MaxEmb == 1
MaxMatchCount == 2
MaxQueryLen == 3
MaxRequests == 2

(***************************************************************************)
(* Program constants                                                       *)
(***************************************************************************)
RrfK == 60
SemanticCteLimit == 100
SearchPostsLimit == 20
RouteMatchCount == 20
MinQueryLength == 2
BatchSize == 10
StatusOk == 200
StatusBadRequest == 400
StatusServerError == 500

(***************************************************************************)
(* Generic helpers                                                         *)
(***************************************************************************)
NULL == {}

Min(a, b) == IF a <= b THEN a ELSE b

Abs(x) == IF x < 0 THEN 0 - x ELSE x

Range(s) == {s[i] : i \in DOMAIN s}

Head_(s, n) == SubSeq(s, 1, Min(n, Len(s)))

\* COALESCE(a, b): the first argument that is not NULL.
Coalesce(a, b) == IF a # NULL THEN a ELSE b

\* The value of a non-NULL SQL value.
Val(x) == CHOOSE v \in x : TRUE

\* Exact fractions.
RatAdd(x, y) == <<x[1] * y[2] + y[1] * x[2], x[2] * y[2]>>

RatLeq(x, y) == x[1] * y[2] <= y[1] * x[2]

RatEq(x, y) == x[1] * y[2] = y[1] * x[2]

\* All orders of the finite set S, as sequences without repetition.
Perms(S) ==
  {f \in [1..Cardinality(S) -> S] : \A i, j \in 1..Cardinality(S) : f[i] = f[j] => i = j}

\* ORDER BY: every order of S that puts x ahead of y only if <<x, y>> is in
\* before, the pairs whose first sort key is not after the second's.
OrderBy(S, before) ==
  {f \in Perms(S) : \A i, j \in 1..Cardinality(S) : i < j => <<f[i], f[j]>> \in before}

(***************************************************************************)
(* The posts table                                                         *)
(***************************************************************************)
Ids == 1..NumPosts

\* The lexemes a search_vector can hold: what to_tsvector('english', ...) makes
\* of the words a, b and aee.
Vocab == {<<"a">>, <<"b">>, <<"a", "e">>}

EmbVals == 0..MaxEmb

\* search_vector as the lexemes of title and excerpt with their number of
\* occurrences (0: the lexeme does not occur).
SearchVectors == [Vocab -> 0..MaxTf]

\* The search vectors of the posts that use the first lexeme only.
OneTermVectors == {v \in SearchVectors : v[<<"b">>] = 0 /\ v[<<"a", "e">>] = 0}

\* posts(id, title, url, score, created_utc, search_vector, embedding): the
\* columns the search reads. title, url, score and created_utc are NOT NULL;
\* embedding stays NULL until the post is embedded.
PostRows(vectors) ==
  [title: {"title"}, url: {"url"}, score: 1..MaxScore, created_utc: {"created_utc"},
   search_vector: vectors, embedding: {NULL} \cup {{e} : e \in EmbVals}]

(***************************************************************************)
(* Text search primitives of the database                                  *)
(***************************************************************************)
\* The words of a text: its maximal runs of non-blank characters.
RECURSIVE WordsFrom(_, _, _)
WordsFrom(text, i, cur) ==
  IF i > Len(text)
    THEN IF cur = <<>> THEN {} ELSE {cur}
    ELSE IF text[i] = " "
      THEN (IF cur = <<>> THEN {} ELSE {cur}) \cup WordsFrom(text, i + 1, <<>>)
      ELSE WordsFrom(text, i + 1, Append(cur, text[i]))

Words(text) == WordsFrom(text, 1, <<>>)

\* The 'english' configuration normalises a word to a lexeme with a suffix
\* stripping stemmer. One application strips one suffix, here a final e, and
\* the result can end in a suffix again (as in agree -> agre -> agr): the
\* stemmer is not idempotent.
Stem(word) ==
  IF Len(word) > 1 /\ word[Len(word)] = "e" THEN SubSeq(word, 1, Len(word) - 1) ELSE word

\* The lexemes of a text: its words, normalised.
Lexemes(text) == {Stem(w) : w \in Words(text)}

\* websearch_to_tsquery('english', text): the lexemes joined with & (AND).
websearch_to_tsquery(text) == [op |-> "&", terms |-> Lexemes(text)]

\* plainto_tsquery('english', text): the lexemes joined with & (AND).
plainto_tsquery(text) == [op |-> "&", terms |-> Lexemes(text)]

\* replace(q::text, ' & ', ' | '): every & of the query's text becomes |.
ReplaceAndByOr(q) == [op |-> "|", terms |-> q.terms]

\* to_tsquery('english', text of q): the text is parsed as a query and each of
\* its tokens, the lexemes of q, is normalised by the configuration again.
to_tsquery(q) == [op |-> q.op, terms |-> {Stem(t) : t \in q.terms}]

\* search_vector @@ query. A query without terms matches no row.
Matches(vector, q) ==
  /\ q.terms # {}
  /\ IF q.op = "&"
       THEN \A t \in q.terms : t \in Vocab /\ vector[t] > 0
       ELSE \E t \in q.terms : t \in Vocab /\ vector[t] > 0

\* ts_rank(search_vector, query): grows with the occurrences of the query's terms.
RECURSIVE SumTf(_, _)
SumTf(vector, terms) ==
  IF terms = {} THEN 0
  ELSE LET t == CHOOSE x \in terms : TRUE
       IN  (IF t \in Vocab THEN vector[t] ELSE 0) + SumTf(vector, terms \ {t})

ts_rank(vector, q) == SumTf(vector, q.terms)

\* embedding <=> query_embedding: the cosine distance, in 0..2.
CosineDistance(e, q) == Abs(e - q)

(***************************************************************************)
(* SQL row helpers                                                         *)
(***************************************************************************)
\* The row of the sequence rows whose id is id, or NULL: one side of a join on id.
RowWithId(rows, id) == {r \in Range(rows) : r.id = id}

\* Column col of a row that an outer join may have left NULL.
Col(row, col) == IF row = NULL THEN NULL ELSE {Val(row)[col]}

\* 1.0 / 60 whatever the position.
ReciprocalIgnoringPosition(position) == IF position = NULL THEN NULL ELSE {<<1, RrfK>>}

\* 1.0 / (60 + position); NULL when the position is NULL.
Reciprocal(position) == IF position = NULL THEN NULL ELSE {<<1, RrfK + Val(position)>>}

(***************************************************************************)
(* search_posts_hybrid                                                     *)
(***************************************************************************)
\* CTE bm25_results: the posts matching websearch_to_tsquery(search_query),
\* numbered by ROW_NUMBER() OVER (ORDER BY ts_rank DESC). The sequence lists the
\* rows by bm25_position.
Bm25Results(P, search_query) ==
  LET q == websearch_to_tsquery(search_query)
      matched == {i \in DOMAIN P : Matches(P[i].search_vector, q)}
      rank(i) == ts_rank(P[i].search_vector, q)
  IN  {[k \in 1..Len(o) |->
          [id |-> o[k], title |-> P[o[k]].title, url |-> P[o[k]].url,
           score |-> P[o[k]].score, created_utc |-> P[o[k]].created_utc,
           rank |-> rank(o[k]), bm25_position |-> k]] :
         o \in OrderBy(matched, {xy \in matched \X matched : rank(xy[1]) >= rank(xy[2])})}

\* No WHERE embedding IS NOT NULL: a post without an embedding is ranked too,
\* with similarity 0.
SemanticResultsNullAsZero(P, query_embedding) ==
  LET dist(i) == IF P[i].embedding = NULL THEN 1
                 ELSE CosineDistance(Val(P[i].embedding), query_embedding)
  IN  {Head_([k \in 1..Len(o) |->
                [id |-> o[k], similarity |-> 1 - dist(o[k]), semantic_position |-> k]],
             SemanticCteLimit) :
         o \in OrderBy(DOMAIN P, {xy \in (DOMAIN P) \X (DOMAIN P) : dist(xy[1]) <= dist(xy[2])})}

\* CTE semantic_results: the posts with an embedding, numbered by
\* ROW_NUMBER() OVER (ORDER BY distance), the first 100 of them.
SemanticResults(P, query_embedding) ==
  LET eligible == {i \in DOMAIN P : P[i].embedding # NULL}
      dist(i) == CosineDistance(Val(P[i].embedding), query_embedding)
  IN  {Head_([k \in 1..Len(o) |->
                [id |-> o[k], similarity |-> 1 - dist(o[k]), semantic_position |-> k]],
             SemanticCteLimit) :
         o \in OrderBy(eligible, {xy \in eligible \X eligible : dist(xy[1]) <= dist(xy[2])})}

\* 1.0 / (60 + COALESCE(position, 0)) on both sides: a list the row is absent
\* from counts as rank 0.
RrfScoreAbsentAsRankZero(b, s) ==
  RatAdd(Val(Reciprocal(Coalesce(Col(b, "bm25_position"), {0}))),
         Val(Reciprocal(Coalesce(Col(s, "semantic_position"), {0}))))

\* rrf_score of one joined row: b and s are the bm25_results and semantic_results
\* rows of the join, either of which may be NULL.
RrfScore(b, s) ==
  RatAdd(Val(Coalesce(Reciprocal(Col(b, "bm25_position")), {<<0, 1>>})),
         Val(Coalesce(Reciprocal(Col(s, "semantic_position")), {<<0, 1>>})))

\* bm25_results b LEFT JOIN semantic_results s ON b.id = s.id.
LeftJoin(bm25, semantic) ==
  {<<RowWithId(bm25, i), RowWithId(semantic, i)>> : i \in {r.id : r \in Range(bm25)}}

\* bm25_results b FULL OUTER JOIN semantic_results s ON b.id = s.id: the pairs
\* <<b, s>> of rows with the same id, with NULL for the side that has no such row.
FullOuterJoin(bm25, semantic) ==
  {<<RowWithId(bm25, i), RowWithId(semantic, i)>> :
     i \in {r.id : r \in Range(bm25)} \cup {r.id : r \in Range(semantic)}}

\* No join to posts: p is NULL in every row.
NoJoinToPosts(P, id) == NULL

\* LEFT JOIN posts p ON COALESCE(b.id, s.id) = p.id: the post with the id, or NULL.
LeftJoinPosts(P, id) == IF id \in DOMAIN P THEN {P[id]} ELSE NULL

\* CTE combined: bm25_results FULL OUTER JOIN semantic_results ON b.id = s.id
\* LEFT JOIN posts p ON COALESCE(b.id, s.id) = p.id.
Combined(P, bm25, semantic) ==
  LET joined == FullOuterJoin(bm25, semantic)
      Row(b, s) ==
        LET id == Val(Coalesce(Col(b, "id"), Col(s, "id")))
            p == LeftJoinPosts(P, id)
        IN  [id |-> id,
             title |-> Coalesce(Col(b, "title"), Col(p, "title")),
             url |-> Coalesce(Col(b, "url"), Col(p, "url")),
             score |-> Coalesce(Col(b, "score"), Col(p, "score")),
             created_utc |-> Coalesce(Col(b, "created_utc"), Col(p, "created_utc")),
             bm25_rank |-> Val(Coalesce(Col(b, "rank"), {0})),
             semantic_similarity |-> Val(Coalesce(Col(s, "similarity"), {0})),
             rrf_score |-> RrfScore(b, s)]
  IN  {Row(j[1], j[2]) : j \in joined}

\* ORDER BY rrf_score ASC.
HybridOrderAscending(x, y) == RatLeq(x.rrf_score, y.rrf_score)

\* The sort key of the final SELECT: ORDER BY rrf_score DESC.
HybridOrder(x, y) == RatLeq(y.rrf_score, x.rrf_score)

\* LIMIT applied to the unordered rows, ORDER BY to what is left.
HybridSelectLimitFirst(combined, match_count) ==
  UNION {OrderBy(kept, {xy \in kept \X kept : HybridOrder(xy[1], xy[2])}) :
           kept \in {k \in SUBSET combined :
                       Cardinality(k) = Min(match_count, Cardinality(combined))}}

\* SELECT ... FROM combined ORDER BY rrf_score DESC LIMIT match_count.
HybridSelect(combined, match_count) ==
  {Head_(o, match_count) :
     o \in OrderBy(combined, {xy \in combined \X combined : HybridOrder(xy[1], xy[2])})}

\* The possible executions of search_posts_hybrid on the table P.
search_posts_hybrid(P, search_query, query_embedding, match_count) ==
  UNION {UNION {{[bm25_results |-> b, semantic_results |-> s,
                  combined |-> Combined(P, b, s), rows |-> rows] :
                   rows \in HybridSelect(Combined(P, b, s), match_count)} :
                 s \in SemanticResults(P, query_embedding)} :
          b \in Bm25Results(P, search_query)}

(***************************************************************************)
(* search_posts and search_posts_semantic                                  *)
(***************************************************************************)
\* ORDER BY rank DESC only: posts of equal rank come in any order.
search_posts_without_popularity(P, search_query) ==
  LET ts_query == to_tsquery(ReplaceAndByOr(plainto_tsquery(search_query)))
      matched == {i \in DOMAIN P : Matches(P[i].search_vector, ts_query)}
      rank(i) == ts_rank(P[i].search_vector, ts_query)
      before == {xy \in matched \X matched : rank(xy[1]) >= rank(xy[2])}
  IN  {Head_([k \in 1..Len(o) |-> [id |-> o[k], score |-> P[o[k]].score, rank |-> rank(o[k])]],
             SearchPostsLimit) :
         o \in OrderBy(matched, before)}

\* search_posts(search_query): the posts matching any word of the query,
\* ORDER BY rank DESC, score DESC LIMIT 20.
search_posts(P, search_query) ==
  LET ts_query == to_tsquery(ReplaceAndByOr(plainto_tsquery(search_query)))
      matched == {i \in DOMAIN P : Matches(P[i].search_vector, ts_query)}
      rank(i) == ts_rank(P[i].search_vector, ts_query)
      before == {xy \in matched \X matched :
                   \/ rank(xy[1]) > rank(xy[2])
                   \/ rank(xy[1]) = rank(xy[2]) /\ P[xy[1]].score >= P[xy[2]].score}
  IN  {Head_([k \in 1..Len(o) |-> [id |-> o[k], score |-> P[o[k]].score, rank |-> rank(o[k])]],
             SearchPostsLimit) :
         o \in OrderBy(matched, before)}

\* ORDER BY distance DESC: the least similar posts first.
search_posts_semantic_farthest_first(P, query_embedding, match_count) ==
  LET eligible == {i \in DOMAIN P : P[i].embedding # NULL}
      dist(i) == CosineDistance(Val(P[i].embedding), query_embedding)
  IN  {Head_([k \in 1..Len(o) |->
                [id |-> o[k], score |-> P[o[k]].score, similarity |-> 1 - dist(o[k])]],
             match_count) :
         o \in OrderBy(eligible, {xy \in eligible \X eligible : dist(xy[1]) >= dist(xy[2])})}

\* search_posts_semantic(query_embedding, match_count): the posts with an
\* embedding, ORDER BY distance LIMIT match_count.
search_posts_semantic(P, query_embedding, match_count) ==
  LET eligible == {i \in DOMAIN P : P[i].embedding # NULL}
      dist(i) == CosineDistance(Val(P[i].embedding), query_embedding)
  IN  {Head_([k \in 1..Len(o) |->
                [id |-> o[k], score |-> P[o[k]].score, similarity |-> 1 - dist(o[k])]],
             match_count) :
         o \in OrderBy(eligible, {xy \in eligible \X eligible : dist(xy[1]) <= dist(xy[2])})}

(***************************************************************************)
(* The stored procedure called directly (SQL editor, PostgREST rpc)        *)
(***************************************************************************)
SqlQueries == {<<"a">>, <<"a", " ", "b">>}

MatchCounts == (1..MaxMatchCount) \cup {RouteMatchCount}

NoSql ==
  [fn |-> "none", search_query |-> <<>>, query_embedding |-> 0, match_count |-> 0,
   bm25_results |-> <<>>, semantic_results |-> <<>>, combined |-> {}, rows |-> <<>>,
   runs |-> 0, previous |-> <<>>, events |-> <<>>]

\* One execution x of the procedure, as the record the model keeps of it.
SqlRecord(fn, search_query, query_embedding, match_count, x, runs, previous) ==
  [fn |-> fn, search_query |-> search_query, query_embedding |-> query_embedding,
   match_count |-> match_count, bm25_results |-> x.bm25_results,
   semantic_results |-> x.semantic_results, combined |-> x.combined, rows |-> x.rows,
   runs |-> runs, previous |-> previous, events |-> <<>>]

\* SELECT * FROM search_posts_hybrid(search_query, query_embedding, match_count).
SqlHybrid ==
  /\ sql.fn = "none"
  /\ \E search_query \in SqlQueries, query_embedding \in EmbVals, match_count \in MatchCounts :
       \E x \in search_posts_hybrid(posts, search_query, query_embedding, match_count) :
         sql' = SqlRecord("search_posts_hybrid", search_query, query_embedding, match_count,
                          x, 1, <<>>)
  /\ UNCHANGED <<posts, pc, req, embedding, calls, resp, job>>

\* The texts search_posts is called with: one word, two words, and words that
\* end in the suffix the stemmer strips.
LexicalQueries == {<<"a">>, <<"a", " ", "b">>, <<"a", "e">>, <<"a", "e", "e">>}

\* SELECT * FROM search_posts(search_query).
SqlSearchPosts ==
  /\ sql.fn = "none"
  /\ \E search_query \in LexicalQueries :
       \E rows \in search_posts(posts, search_query) :
         sql' = SqlRecord("search_posts", search_query, 0, 0,
                          [bm25_results |-> <<>>, semantic_results |-> <<>>,
                           combined |-> {}, rows |-> rows], 1, <<>>)
  /\ UNCHANGED <<posts, pc, req, embedding, calls, resp, job>>

\* After search_posts(search_query), search_posts_hybrid is executed with the
\* same text on the unchanged table; the rows of search_posts are kept in
\* previous.
SqlHybridAfterSearchPosts ==
  /\ sql.fn = "search_posts"
  /\ sql.runs = 1
  /\ \E query_embedding \in EmbVals :
       \E x \in search_posts_hybrid(posts, sql.search_query, query_embedding, RouteMatchCount) :
         sql' = SqlRecord("search_posts_hybrid", sql.search_query, query_embedding,
                          RouteMatchCount, x, 2, [fn |-> sql.fn, rows |-> sql.rows])
  /\ UNCHANGED <<posts, pc, req, embedding, calls, resp, job>>

\* SELECT * FROM search_posts_semantic(query_embedding, match_count).
SqlSemantic ==
  /\ sql.fn = "none"
  /\ \E query_embedding \in EmbVals, match_count \in MatchCounts :
       \E rows \in search_posts_semantic(posts, query_embedding, match_count) :
         sql' = SqlRecord("search_posts_semantic", <<>>, query_embedding, match_count,
                          [bm25_results |-> <<>>, semantic_results |-> <<>>,
                           combined |-> {}, rows |-> rows], 1, <<>>)
  /\ UNCHANGED <<posts, pc, req, embedding, calls, resp, job>>

\* The same statement executed a second time on the unchanged table; the two
\* lists and the rows of the first execution are kept in previous.
SqlHybridAgain ==
  /\ sql.fn = "search_posts_hybrid"
  /\ sql.runs = 1
  /\ \E x \in search_posts_hybrid(posts, sql.search_query, sql.query_embedding, sql.match_count) :
       sql' = SqlRecord(sql.fn, sql.search_query, sql.query_embedding, sql.match_count,
                        x, 2, [fn |-> sql.fn, bm25_results |-> sql.bm25_results,
                               semantic_results |-> sql.semantic_results,
                               rows |-> sql.rows])
  /\ UNCHANGED <<posts, pc, req, embedding, calls, resp, job>>

(***************************************************************************)
(* GET /api/search                                                         *)
(***************************************************************************)
Chars == {" ", "a"}

\* The texts a request can carry in q.
QueryTexts == UNION {[1..n -> Chars] : n \in 0..MaxQueryLen}

\* searchParams.get('q') and searchParams.get('mode'): NULL when the parameter
\* is missing.
QueryParams == {NULL} \cup {{t} : t \in QueryTexts}

ModeParams == {NULL, {""}, {"bm25"}, {"semantic"}, {"hybrid"}, {"other"}}

\* String.prototype.trim.
RECURSIVE TrimStart(_)
TrimStart(text) ==
  IF text # <<>> /\ Head(text) = " " THEN TrimStart(Tail(text)) ELSE text

RECURSIVE TrimEnd(_)
TrimEnd(text) ==
  IF text # <<>> /\ text[Len(text)] = " "
    THEN TrimEnd(SubSeq(text, 1, Len(text) - 1))
    ELSE text

Trim(text) == TrimEnd(TrimStart(text))

\* !query || query.trim().length === 0
QueryMissing(q) == q = NULL \/ Val(q) = <<>> \/ Len(Trim(Val(q))) = 0

\* query.length < 2: the length of the text as received.
QueryTooShortUntrimmed(q) == Len(Val(q)) < MinQueryLength

\* query.trim().length < 2
QueryTooShort(q) == Len(Trim(Val(q))) < MinQueryLength

\* request.nextUrl.searchParams.get('mode') || 'bm25'
ResolveMode(m) == IF m = NULL \/ Val(m) = "" THEN "bm25" ELSE Val(m)

\* Every mode is let through.
AnyModeIsValid(mode) == TRUE

\* ['bm25', 'semantic', 'hybrid'].includes(mode)
ModeIsValid(mode) == mode \in {"bm25", "semantic", "hybrid"}

\* NextResponse.json({error}, {status}): a body without query, mode, count, results.
ErrorResponse(status, error) ==
  [status |-> status, error |-> error, query |-> NULL, mode |-> NULL,
   count |-> NULL, results |-> NULL]

\* The response echoes the trimmed query.
SuccessResponseTrimmedQuery(q, mode, data) ==
  [status |-> StatusOk, error |-> "", query |-> {Trim(Val(q))}, mode |-> {mode},
   count |-> {IF data = NULL THEN 0 ELSE Len(Val(data))},
   results |-> {IF data = NULL THEN <<>> ELSE Val(data)}]

\* NextResponse.json({query, mode, count: data?.length || 0, results: data || []}).
SuccessResponse(q, mode, data) ==
  [status |-> StatusOk, error |-> "", query |-> q, mode |-> {mode},
   count |-> {IF data = NULL THEN 0 ELSE Len(Val(data))},
   results |-> {IF data = NULL THEN <<>> ELSE Val(data)}]

\* The failure is swallowed: the request is answered with the lexical ranking.
LexicalFallbackOnException(q, mode) ==
  SuccessResponse(q, mode, {CHOOSE data \in search_posts(posts, Val(q)) : TRUE})

\* catch (err): 500 'Internal server error'.
CatchResponse(q, mode) == ErrorResponse(StatusServerError, "Internal server error")

\* The error of the rpc result is ignored: data || [] is returned.
EmptySuccessOnRpcError(q, mode) == SuccessResponse(q, mode, NULL)

\* if (error): 500 'Search failed'.
RpcErrorResponse(q, mode) == ErrorResponse(StatusServerError, "Search failed")

\* The stored procedure each mode calls.
RpcOfMode(mode) ==
  CASE mode = "bm25" -> "search_posts"
    [] mode = "semantic" -> "search_posts_semantic"
    [] mode = "hybrid" -> "search_posts_hybrid"

\* The embedding is requested in every mode, the lexical one included.
FirstCallAlwaysEmbeds(mode) == "generateQueryEmbedding"

\* The first external call of a mode's branch: bm25 goes straight to
\* supabase.rpc('search_posts'), semantic and hybrid first await
\* generateQueryEmbedding(query).
FirstCall(mode) ==
  IF mode = "bm25" THEN "search_posts" ELSE "generateQueryEmbedding"

\* The rows supabase.rpc can return as data for the request, on the table P.
RpcData(P, mode, q, e) ==
  CASE mode = "bm25" -> search_posts(P, q)
    [] mode = "semantic" -> search_posts_semantic(P, e, RouteMatchCount)
    [] mode = "hybrid" -> {x.rows : x \in search_posts_hybrid(P, q, e, RouteMatchCount)}

\* An external call that was started, and how it ended.
Call(fn, state) == [fn |-> fn, state |-> state]

\* calls with its last, pending call ended.
EndLast(cs, state) == [cs EXCEPT ![Len(cs)].state = state]

\* seq counts the requests received so far.
NoReq == [q |-> NULL, mode |-> NULL, seq |-> 0]

\* The stored procedure writes to the table it searches (a hit counter kept in
\* the popularity of the first post).
TableAfterRpcCountsHits(P) == [P EXCEPT ![1].score = 3 - P[1].score]

\* The posts table after a stored procedure has run: the three procedures are
\* a single SELECT each, without INSERT, UPDATE or DELETE.
TableAfterRpc(P) == P

NoResp == ErrorResponse(0, "")

\* The embedding is requested before the parameters are validated.
EmbeddingStartedBeforeValidation(cs) ==
  Append(cs, Call("generateQueryEmbedding", "pending"))

\* The calls of the request when a validation returns its 400: the three
\* validations come before the try block and before any await.
CallsBeforeValidation(cs) == cs

\* The call that failed is issued once more.
CallsWithRetry(cs) ==
  Append(EndLast(cs, "failed"), Call(cs[Len(cs)].fn, "pending"))

\* The calls of the request after its awaited call has failed: the handler
\* returns from catch or from if (error), and starts no other call.
CallsAfterFailure(cs) == EndLast(cs, "failed")

\* GET up to its first await: the validation of q and mode, then the first
\* external call of the mode. A mode outside the three reaches no branch of the
\* dispatch and answers with data = null.
Receive ==
  /\ pc = "idle"
  /\ \E q \in QueryParams, m \in ModeParams :
       LET mode == ResolveMode(m)
       IN  /\ req' = [q |-> q, mode |-> m, seq |-> req.seq + 1]
           /\ IF QueryMissing(q)
                THEN /\ resp' = ErrorResponse(StatusBadRequest, "Query parameter \"q\" is required")
                     /\ pc' = "done"
                     /\ calls' = CallsBeforeValidation(calls)
              ELSE IF QueryTooShort(q)
                THEN /\ resp' = ErrorResponse(StatusBadRequest, "Query must be at least 2 characters")
                     /\ pc' = "done"
                     /\ calls' = CallsBeforeValidation(calls)
              ELSE IF ~ModeIsValid(mode)
                THEN /\ resp' = ErrorResponse(StatusBadRequest, "Invalid mode. Must be: bm25, semantic, or hybrid")
                     /\ pc' = "done"
                     /\ calls' = CallsBeforeValidation(calls)
              ELSE IF mode \in {"bm25", "semantic", "hybrid"}
                THEN /\ resp' = resp
                     /\ pc' = IF FirstCall(mode) = "generateQueryEmbedding"
                               THEN "embedding" ELSE "rpc"
                     /\ calls' = Append(calls, Call(FirstCall(mode), "pending"))
              ELSE /\ resp' = SuccessResponse(q, mode, NULL)
                   /\ pc' = "done"
                   /\ calls' = calls
  /\ UNCHANGED <<posts, sql, embedding, job>>

\* await generateQueryEmbedding(query) throws: the catch block answers.
EmbeddingFails ==
  /\ pc = "embedding"
  /\ calls' = CallsAfterFailure(calls)
  /\ resp' = CatchResponse(req.q, ResolveMode(req.mode))
  /\ pc' = "done"
  /\ UNCHANGED <<posts, sql, req, embedding, job>>

\* await generateQueryEmbedding(query) returns the embedding; the stored
\* procedure of the mode is called with it.
EmbeddingReturns ==
  /\ pc = "embedding"
  /\ \E e \in EmbVals : embedding' = {e}
  /\ calls' = Append(EndLast(calls, "ok"), Call(RpcOfMode(ResolveMode(req.mode)), "pending"))
  /\ pc' = "rpc"
  /\ UNCHANGED <<posts, sql, req, resp, job>>

\* await supabase.rpc(...) throws: the catch block answers.
RpcThrows ==
  /\ pc = "rpc"
  /\ calls' = CallsAfterFailure(calls)
  /\ resp' = CatchResponse(req.q, ResolveMode(req.mode))
  /\ pc' = "done"
  /\ UNCHANGED <<posts, sql, req, embedding, job>>

\* await supabase.rpc(...) returns {data: null, error}.
RpcReturnsError ==
  /\ pc = "rpc"
  /\ calls' = CallsAfterFailure(calls)
  /\ resp' = RpcErrorResponse(req.q, ResolveMode(req.mode))
  /\ pc' = "done"
  /\ UNCHANGED <<posts, sql, req, embedding, job>>

\* await supabase.rpc(...) returns {data, error: null}.
RpcReturnsData ==
  /\ pc = "rpc"
  /\ \E data \in RpcData(posts, ResolveMode(req.mode), Val(req.q),
                         IF embedding = NULL THEN 0 ELSE Val(embedding)) :
       resp' = SuccessResponse(req.q, ResolveMode(req.mode), {data})
  /\ posts' = TableAfterRpc(posts)
  /\ calls' = EndLast(calls, "ok")
  /\ pc' = "done"
  /\ UNCHANGED <<sql, req, embedding, job>>

\* The parts of search_posts_hybrid that have been evaluated, in sql.events.
Evaluated(part) == part \in Range(sql.events)

\* supabase.rpc('search_posts_hybrid', ...) of the request reaches the database:
\* the procedure is entered with the query and the embedding of the request.
HybridBegin ==
  /\ pc = "rpc"
  /\ calls[Len(calls)].fn = "search_posts_hybrid"
  /\ sql.fn = "none"
  /\ sql' = [NoSql EXCEPT !.fn = "search_posts_hybrid", !.search_query = Val(req.q),
                          !.query_embedding = Val(embedding),
                          !.match_count = RouteMatchCount, !.runs = 1]
  /\ UNCHANGED <<posts, pc, req, embedding, calls, resp, job>>

\* WITH bm25_results AS (...): the lexical query of the procedure.
HybridBm25Cte ==
  /\ pc = "rpc"
  /\ sql.fn = "search_posts_hybrid"
  /\ ~Evaluated("bm25_results")
  /\ \E b \in Bm25Results(posts, sql.search_query) :
       sql' = [sql EXCEPT !.bm25_results = b, !.events = Append(@, "bm25_results")]
  /\ UNCHANGED <<posts, pc, req, embedding, calls, resp, job>>

\* semantic_results AS (...): the vector query of the procedure.
HybridSemanticCte ==
  /\ pc = "rpc"
  /\ sql.fn = "search_posts_hybrid"
  /\ ~Evaluated("semantic_results")
  /\ \E s \in SemanticResults(posts, sql.query_embedding) :
       sql' = [sql EXCEPT !.semantic_results = s, !.events = Append(@, "semantic_results")]
  /\ UNCHANGED <<posts, pc, req, embedding, calls, resp, job>>

\* The join starts as soon as the lexical list is there.
CombineAfterLexicalOnly(events) == "bm25_results" \in Range(events)

\* combined reads FROM bm25_results b FULL OUTER JOIN semantic_results s: it is
\* defined over the results of both.
CombineEnabled(events) ==
  "bm25_results" \in Range(events) /\ "semantic_results" \in Range(events)

\* combined AS (...): the fusion of the two lists.
HybridCombine ==
  /\ pc = "rpc"
  /\ sql.fn = "search_posts_hybrid"
  /\ CombineEnabled(sql.events)
  /\ ~Evaluated("combined")
  /\ sql' = [sql EXCEPT !.combined = Combined(posts, sql.bm25_results, sql.semantic_results),
                        !.events = Append(@, "combined")]
  /\ UNCHANGED <<posts, pc, req, embedding, calls, resp, job>>

\* SELECT ... FROM combined ORDER BY rrf_score DESC LIMIT match_count.
HybridSelectRows ==
  /\ pc = "rpc"
  /\ sql.fn = "search_posts_hybrid"
  /\ Evaluated("combined")
  /\ ~Evaluated("select")
  /\ \E rows \in HybridSelect(sql.combined, sql.match_count) :
       sql' = [sql EXCEPT !.rows = rows, !.events = Append(@, "select")]
  /\ UNCHANGED <<posts, pc, req, embedding, calls, resp, job>>

\* await supabase.rpc('search_posts_hybrid', ...) returns the rows the
\* procedure selected.
RpcReturnsFused ==
  /\ pc = "rpc"
  /\ sql.fn = "search_posts_hybrid"
  /\ Evaluated("select")
  /\ resp' = SuccessResponse(req.q, ResolveMode(req.mode), {sql.rows})
  /\ calls' = EndLast(calls, "ok")
  /\ pc' = "done"
  /\ UNCHANGED <<posts, sql, req, embedding, job>>

\* await supabase.rpc(...) of a bm25 or semantic request returns its data.
RpcReturnsUnfused ==
  /\ ResolveMode(req.mode) # "hybrid"
  /\ RpcReturnsData

\* The invocation of GET has returned its response; the next request starts a
\* new invocation, whose locals (query, mode, data, error, embedding) are new.
\* Nothing but the posts table outlives the invocation.
NextRequest ==
  /\ pc = "done"
  /\ req.seq < MaxRequests
  /\ pc' = "idle"
  /\ req' = [NoReq EXCEPT !.seq = req.seq]
  /\ embedding' = NULL
  /\ calls' = <<>>
  /\ resp' = NoResp
  /\ UNCHANGED <<posts, sql, job>>

\* The awaited call (openai.embeddings.create or supabase.rpc) never settles:
\* the handler sets no timeout and no abort signal, so it stays at its await.
CallNeverReturns ==
  /\ pc \in {"embedding", "rpc"}
  /\ calls' = EndLast(calls, "hung")
  /\ pc' = "hung"
  /\ UNCHANGED <<posts, sql, req, embedding, resp, job>>

(***************************************************************************)
(* The embed-posts edge function                                           *)
(***************************************************************************)
\* A response of the function: JSON.stringify leaves out the fields that are
\* not set, which are NULL here.
JobResponse(status, success, processed, failed) ==
  [status |-> status, success |-> success, processed |-> processed, failed |-> failed]

\* No invocation is running: selected is the result of the select, remaining
\* the posts the for loop has not reached yet, succeeded the posts whose
\* embedding call and update call both succeeded.
NoJob ==
  [phase |-> "idle", selected |-> {}, remaining |-> {}, succeeded |-> {},
   processed |-> 0, failed |-> 0, response |-> JobResponse(0, FALSE, NULL, NULL)]

\* The select without .is('embedding', null): any BATCH_SIZE posts.
SelectionsOfAnyPosts(P) ==
  {S \in SUBSET (DOMAIN P) : Cardinality(S) = Min(BatchSize, Cardinality(DOMAIN P))}

\* from('posts').select(...).is('embedding', null).limit(BATCH_SIZE): without
\* ORDER BY, any BATCH_SIZE of the posts without embedding (all of them when
\* they are fewer).
Selections(P) ==
  LET nulls == {i \in DOMAIN P : P[i].embedding = NULL}
  IN  {S \in SUBSET nulls : Cardinality(S) = Min(BatchSize, Cardinality(nulls))}

\* The text sent to the provider: title and excerpt (the excerpt is not a
\* column of the model).
PostText(p) == p.title

\* generateEmbedding(text): the vector the provider returns for the text. The
\* posts of the model have one text, so one vector.
generateEmbedding(text) == 0

\* The select fails (fetchError) or throws: the outer catch answers 500.
EmbedSelectFails ==
  /\ job.phase = "idle"
  /\ job' = [job EXCEPT !.phase = "done",
                        !.response = JobResponse(StatusServerError, FALSE, NULL, NULL)]
  /\ UNCHANGED <<posts, sql, pc, req, embedding, calls, resp>>

\* The select returns its rows. Without rows the function answers at once,
\* with processed: 0 and no failed field; with rows the for loop begins.
EmbedSelect ==
  /\ job.phase = "idle"
  /\ \E S \in Selections(posts) :
       job' = IF S = {}
                THEN [job EXCEPT !.phase = "done",
                                 !.response = JobResponse(StatusOk, TRUE, {0}, NULL)]
                ELSE [job EXCEPT !.phase = "loop", !.selected = S, !.remaining = S]
  /\ UNCHANGED <<posts, sql, pc, req, embedding, calls, resp>>

\* The update wrote nothing.
PostsAfterLostUpdate(P, id, e) == P

\* from('posts').update({ embedding }).eq('id', post.id).
PostsAfterUpdate(P, id, e) == [P EXCEPT ![id].embedding = {e}]

\* One iteration of the for loop in which generateEmbedding and the update
\* both succeed: processed++. The rows come in no stated order, so the post of
\* the iteration is any post not yet reached.
EmbedPostOk(id) ==
  /\ job.phase = "loop"
  /\ id \in job.remaining
  /\ posts' = PostsAfterUpdate(posts, id, generateEmbedding(PostText(posts[id])))
  /\ job' = [job EXCEPT !.remaining = @ \ {id}, !.succeeded = @ \cup {id},
                        !.processed = @ + 1]
  /\ UNCHANGED <<sql, pc, req, embedding, calls, resp>>

\* The first failure ends the loop.
NoneRemainingAfterFailure(remaining, id) == {}

\* The posts the loop has still to reach after the iteration of id failed: the
\* inner catch and the updateError branch count the failure and go on.
RemainingAfterFailure(remaining, id) == remaining \ {id}

\* One iteration in which generateEmbedding throws (inner catch) or the update
\* returns updateError or throws: failed++, nothing is written.
EmbedPostFails(id) ==
  /\ job.phase = "loop"
  /\ id \in job.remaining
  /\ job' = [job EXCEPT !.remaining = RemainingAfterFailure(@, id),
                        !.failed = @ + 1]
  /\ UNCHANGED <<posts, sql, pc, req, embedding, calls, resp>>

\* After the loop: { success: true, processed, failed }.
EmbedRespond ==
  /\ job.phase = "loop"
  /\ job.remaining = {}
  /\ job' = [job EXCEPT !.phase = "done",
                        !.response = JobResponse(StatusOk, TRUE, {job.processed}, {job.failed})]
  /\ UNCHANGED <<posts, sql, pc, req, embedding, calls, resp>>

\* The function is invoked again (cron, HTTP): a new invocation, new locals.
EmbedAgain ==
  /\ job.phase = "done"
  /\ job' = NoJob
  /\ UNCHANGED <<posts, sql, pc, req, embedding, calls, resp>>

InitRoute ==
  /\ job = NoJob
  /\ pc = "idle"
  /\ req = NoReq
  /\ embedding = NULL
  /\ calls = <<>>
  /\ resp = NoResp

\* Posts of one popularity that hold the first lexeme at most once and have
\* one embedding or none: with them every pair of a lexical and a vector list
\* over the ids arises, all ranks and all distances being ties.
PlainPostRows ==
  {p \in PostRows(OneTermVectors) :
     p.score = 1 /\ p.search_vector[<<"a">>] <= 1 /\ p.embedding \in {NULL, {0}}}

Init ==
  /\ posts \in [Ids -> PlainPostRows]
  /\ sql = NoSql
  /\ InitRoute

Next ==
  \/ Receive
  \/ EmbeddingFails
  \/ EmbeddingReturns
  \/ RpcThrows
  \/ RpcReturnsError
  \/ RpcReturnsData

Spec == Init /\ [][Next]_vars

\* A stored procedure called by another invocation of GET, which runs
\* concurrently with this one, completes. The invocations share the posts
\* table and the two clients, and no variable of the module.
OtherRequestRpc ==
  /\ posts' = TableAfterRpc(posts)
  /\ UNCHANGED <<sql, pc, req, embedding, calls, resp, job>>

\* One more post than a batch holds without embedding, and one with: the ids of
\* the table the function runs on.
JobIds == 1..(BatchSize + 2)

\* A post of the table of the function, without embedding or with one that
\* was written before (1, where the function writes 0).
JobPost(embedded) ==
  [title |-> "title", url |-> "url", score |-> 1, created_utc |-> "created_utc",
   search_vector |-> [t \in Vocab |-> 0],
   embedding |-> IF embedded THEN {1} ELSE NULL]

\* Tables in which post 1 has an embedding and the posts 2..n have none, for
\* every n up to one more than a batch.
InitEmbed ==
  /\ \E n \in JobIds : posts = [i \in JobIds |-> JobPost(i = 1 \/ i > n)]
  /\ sql = NoSql
  /\ InitRoute

\* One invocation of the function.
NextEmbed ==
  \/ EmbedSelectFails
  \/ EmbedSelect
  \/ \E id \in DOMAIN posts : EmbedPostOk(id)
  \/ \E id \in DOMAIN posts : EmbedPostFails(id)
  \/ EmbedRespond

SpecEmbed == InitEmbed /\ [][NextEmbed]_vars

\* Every table of NumPosts posts with and without embedding.
InitEmbedRepeat ==
  /\ posts \in [Ids -> {JobPost(TRUE), JobPost(FALSE)}]
  /\ sql = NoSql
  /\ InitRoute

\* The function invoked again and again.
NextEmbedRepeat == NextEmbed \/ EmbedAgain

\* The scheduler invokes the function every 10 minutes and the steps of an
\* invocation run: weak fairness of the whole. Which outcome a call has is
\* not a matter of scheduling and is under no fairness condition.
SpecEmbedRepeat ==
  InitEmbedRepeat /\ [][NextEmbedRepeat]_vars /\ WF_vars(NextEmbedRepeat)

\* The request with the evaluation of search_posts_hybrid in its parts.
NextFused ==
  \/ Receive
  \/ EmbeddingFails
  \/ EmbeddingReturns
  \/ RpcThrows
  \/ RpcReturnsError
  \/ RpcReturnsUnfused
  \/ HybridBegin
  \/ HybridBm25Cte
  \/ HybridSemanticCte
  \/ HybridCombine
  \/ HybridSelectRows
  \/ RpcReturnsFused

SpecFused == Init /\ [][NextFused]_vars

\* Requests one after the other, and next to the requests of other invocations.
NextRequests == Next \/ NextRequest \/ OtherRequestRpc

SpecRequests == Init /\ [][NextRequests]_vars

\* The request with the outcome that an external call never returns. Every
\* step that can be taken is eventually taken: the handler runs whenever it is
\* not awaiting, and a call that settles resumes it.
NextLive == Next \/ CallNeverReturns

SpecLive == Init /\ [][NextLive]_vars /\ WF_vars(NextLive)

\* Posts of one popularity that hold the first lexeme at most once, with no
\* embedding or one of two.
FusionPostRows ==
  {p \in PostRows(OneTermVectors) :
     p.score = 1 /\ p.search_vector[<<"a">>] <= 1 /\ p.embedding \in {NULL, {0}, {1}}}

InitSql ==
  /\ posts \in [Ids -> FusionPostRows]
  /\ sql = NoSql
  /\ InitRoute

\* Posts of every popularity, every number of occurrences and every embedding.
InitSqlAll ==
  /\ posts \in [Ids -> PostRows(OneTermVectors)]
  /\ sql = NoSql
  /\ InitRoute

NextSql == SqlHybrid \/ SqlSemantic

NextSqlTwice == SqlHybrid \/ SqlHybridAgain

SpecSql == InitSql /\ [][NextSql]_vars

SpecSqlTwice == InitSqlAll /\ [][NextSqlTwice]_vars

\* Posts of two popularities without embedding that hold each of the lexemes
\* a and b at most once: ranks 1 and 2, tied and not, arise for 'a b'.
LexicalPostRows ==
  {p \in PostRows(SearchVectors) :
     /\ p.score <= 2
     /\ p.search_vector[<<"a">>] <= 1
     /\ p.search_vector[<<"b">>] <= 1
     /\ p.search_vector[<<"a", "e">>] = 0
     /\ p.embedding = NULL}

\* The same with the lexeme ae, which a post gets from the word aee.
StemmedPostRows ==
  {p \in PostRows(SearchVectors) :
     /\ p.score <= 2
     /\ \A t \in Vocab : p.search_vector[t] <= 1
     /\ p.embedding = NULL}

InitLexical ==
  /\ posts \in [Ids -> LexicalPostRows]
  /\ sql = NoSql
  /\ InitRoute

InitLexicalAll ==
  /\ posts \in [Ids -> StemmedPostRows]
  /\ sql = NoSql
  /\ InitRoute

NextLexical == SqlSearchPosts

NextLexicalThenHybrid == SqlSearchPosts \/ SqlHybridAfterSearchPosts

SpecLexical == InitLexical /\ [][NextLexical]_vars

SpecLexicalThenHybrid == InitLexicalAll /\ [][NextLexicalThenHybrid]_vars

(***************************************************************************)
(* Claims about the fusion (search_posts_hybrid)                           *)
(***************************************************************************)
IsHybridRun == sql.fn = "search_posts_hybrid"

\* The ids of a ranked list, and the 1-based place of id in it (0: absent).
ListIds(list) == {list[k].id : k \in DOMAIN list}

PlaceIn(list, id) ==
  IF id \in ListIds(list) THEN CHOOSE k \in DOMAIN list : list[k].id = id ELSE 0

\* What one list contributes to the RRF score of id.
Contribution(list, id) ==
  IF PlaceIn(list, id) = 0 THEN <<0, 1>> ELSE <<1, 60 + PlaceIn(list, id)>>

ExpectedRrf(id) ==
  RatAdd(Contribution(sql.bm25_results, id), Contribution(sql.semantic_results, id))

\* C1: every fused result's RRF score is the sum over the lexical and the vector
\* list of 1/(60 + its 1-based place in the list), a list it is absent from
\* contributing 0; the score is a defined number (a fraction with a positive
\* denominator, never NULL).
C1_RrfScoreIsSumOfReciprocalRanks ==
  IsHybridRun =>
    \A k \in DOMAIN sql.rows :
      LET r == sql.rows[k]
      IN  /\ r.rrf_score \in Nat \X (Nat \ {0})
          /\ RatEq(r.rrf_score, ExpectedRrf(r.id))

\* C1 witness: one result found by both lists at different places, one found by
\* the lexical list only and one found by the vector list only.
C1_Witness ==
  /\ IsHybridRun
  /\ \E i, j, k \in DOMAIN sql.rows :
       /\ PlaceIn(sql.bm25_results, sql.rows[i].id) > 0
       /\ PlaceIn(sql.semantic_results, sql.rows[i].id) > 0
       /\ PlaceIn(sql.bm25_results, sql.rows[i].id) # PlaceIn(sql.semantic_results, sql.rows[i].id)
       /\ PlaceIn(sql.bm25_results, sql.rows[j].id) > 0
       /\ PlaceIn(sql.semantic_results, sql.rows[j].id) = 0
       /\ PlaceIn(sql.bm25_results, sql.rows[k].id) = 0
       /\ PlaceIn(sql.semantic_results, sql.rows[k].id) > 0

\* C2: the fused output is sorted by RRF score, non-increasing.
C2_SortedByRrfScore ==
  IsHybridRun =>
    \A i, j \in DOMAIN sql.rows :
      i < j => RatLeq(sql.rows[j].rrf_score, sql.rows[i].rrf_score)

\* C2 witness: an output of three results with three different scores whose
\* best result is not the post with the smallest id.
C2_Witness ==
  /\ IsHybridRun
  /\ Len(sql.rows) = 3
  /\ ~RatEq(sql.rows[1].rrf_score, sql.rows[2].rrf_score)
  /\ ~RatEq(sql.rows[2].rrf_score, sql.rows[3].rrf_score)
  /\ sql.rows[1].id > sql.rows[3].id

\* The order C3 asks for between two results of equal RRF score: the higher
\* popularity first, then the smaller id.
TieBrokenBefore(x, y) ==
  \/ Val(x.score) > Val(y.score)
  \/ Val(x.score) = Val(y.score) /\ x.id < y.id

\* C3: results of equal RRF score are ordered by popularity, descending, and
\* then by id; with the lexical list [A, B] and the vector list [B, C] the
\* output is B, then A and C by popularity and then by id.
C3_TiesByPopularityThenId ==
  IsHybridRun =>
    /\ \A i, j \in DOMAIN sql.rows :
         (i < j /\ RatEq(sql.rows[i].rrf_score, sql.rows[j].rrf_score))
           => TieBrokenBefore(sql.rows[i], sql.rows[j])
    /\ \A A, B, C \in Ids :
         ( /\ Cardinality({A, B, C}) = 3
           /\ Len(sql.rows) = 3
           /\ [k \in DOMAIN sql.bm25_results |-> sql.bm25_results[k].id] = <<A, B>>
           /\ [k \in DOMAIN sql.semantic_results |-> sql.semantic_results[k].id] = <<B, C>> )
         => /\ sql.rows[1].id = B
            /\ TieBrokenBefore(sql.rows[2], sql.rows[3])

\* C4: a second execution on the same table with the same arguments that ranks
\* the two lists as the first did returns the rows of the first, in the same order.
C4_FusionIsDeterministic ==
  ( /\ IsHybridRun
    /\ sql.runs = 2
    /\ sql.bm25_results = sql.previous.bm25_results
    /\ sql.semantic_results = sql.previous.semantic_results )
  => sql.rows = sql.previous.rows

\* C5: the ids of combined are the ids of the lexical list and of the vector
\* list, each once; an output that is not truncated lists exactly these ids,
\* each once.
C5_CandidatesAreTheUnion ==
  IsHybridRun =>
    LET union == ListIds(sql.bm25_results) \cup ListIds(sql.semantic_results)
    IN  /\ {r.id : r \in sql.combined} = union
        /\ Cardinality(sql.combined) = Cardinality(union)
        /\ sql.match_count >= Cardinality(sql.combined) =>
             /\ ListIds(sql.rows) = union
             /\ Len(sql.rows) = Cardinality(union)

\* C5 witness: the two lists overlap, each has an id the other lacks, and a post
\* of the table is in neither.
C5_Witness ==
  /\ IsHybridRun
  /\ sql.match_count >= Cardinality(sql.combined)
  /\ ListIds(sql.bm25_results) \cap ListIds(sql.semantic_results) # {}
  /\ ListIds(sql.bm25_results) \ ListIds(sql.semantic_results) # {}
  /\ ListIds(sql.semantic_results) \ ListIds(sql.bm25_results) # {}

\* C6: the output has min(match_count, number of candidates) rows, all of them
\* candidates, and no candidate left out has a higher RRF score than one kept.
C6_TruncatedToLimit ==
  IsHybridRun =>
    /\ Len(sql.rows) = Min(sql.match_count, Cardinality(sql.combined))
    /\ Range(sql.rows) \subseteq sql.combined
    /\ \A out \in sql.combined \ Range(sql.rows) :
         \A k \in DOMAIN sql.rows : RatLeq(out.rrf_score, sql.rows[k].rrf_score)

\* C6 witness: three candidates, a limit of two, and the candidate left out
\* scores strictly less than both that are kept.
C6_Witness ==
  /\ IsHybridRun
  /\ Cardinality(sql.combined) = 3
  /\ sql.match_count = 2
  /\ Len(sql.rows) = 2
  /\ \E out \in sql.combined \ Range(sql.rows) :
       ~RatLeq(sql.rows[2].rrf_score, out.rrf_score)

(***************************************************************************)
(* Claims about GET /api/search                                            *)
(***************************************************************************)
\* The number of characters of q between its first and its last non-blank
\* character, both included (0 when q is missing or blank).
TrimmedLength(q) ==
  IF q = NULL THEN 0
  ELSE LET t == Val(q)
           nonBlank == {k \in DOMAIN t : t[k] # " "}
       IN  IF nonBlank = {} THEN 0
           ELSE (CHOOSE k \in nonBlank : \A l \in nonBlank : l <= k)
                  - (CHOOSE k \in nonBlank : \A l \in nonBlank : k <= l) + 1

RecognisedModes == {"bm25", "semantic", "hybrid"}

QueryErrors == {"Query parameter \"q\" is required", "Query must be at least 2 characters"}

ModeErrors == {"Invalid mode. Must be: bm25, semantic, or hybrid"}

DownstreamErrors == {"Search failed", "Internal server error"}

SomeCallFailed == \E k \in DOMAIN calls : calls[k].state = "failed"

Is4xx(status) == status \in 400..499

Is5xx(status) == status \in 500..599

\* C7: a hybrid request whose embedding call failed has ended with a 5xx that
\* carries no result list, and no stored procedure was called for it; a hybrid
\* request answered with results had its embedding and ran search_posts_hybrid.
C7_HybridNeverDegradesToLexical ==
  req.mode = {"hybrid"} =>
    /\ (\E k \in DOMAIN calls : calls[k] = Call("generateQueryEmbedding", "failed")) =>
         /\ pc = "done"
         /\ Is5xx(resp.status)
         /\ resp.results = NULL
         /\ calls = <<Call("generateQueryEmbedding", "failed")>>
    /\ resp.results # NULL =>
         calls = <<Call("generateQueryEmbedding", "ok"), Call("search_posts_hybrid", "ok")>>

\* C7 witness: a hybrid request whose embedding call failed, answered, on a
\* table in which the query has a lexical match.
C7_Witness ==
  /\ req.mode = {"hybrid"}
  /\ pc = "done"
  /\ calls = <<Call("generateQueryEmbedding", "failed")>>
  /\ search_posts(posts, Val(req.q)) # {<<>>}

\* The stored procedure of the mode matches no post of the table.
MatchesNothing(mode, q, P) ==
  LET lexicalAny == \E i \in DOMAIN P : \E w \in Words(q) : w \in Vocab /\ P[i].search_vector[w] > 0
      lexicalAll == \E i \in DOMAIN P :
                      Words(q) # {} /\ \A w \in Words(q) : w \in Vocab /\ P[i].search_vector[w] > 0
      embedded == \E i \in DOMAIN P : P[i].embedding # NULL
  IN  CASE mode = "bm25" -> ~lexicalAny
        [] mode = "semantic" -> ~embedded
        [] mode = "hybrid" -> ~lexicalAll /\ ~embedded

\* C8: once a store query or the embedding call of a request has failed, the
\* request has ended with a 5xx; a 200 with an empty result list is given only
\* after a stored procedure call that succeeded and matched no post.
C8_FailuresAre5xx ==
  /\ SomeCallFailed => (pc = "done" /\ Is5xx(resp.status) /\ resp.results = NULL)
  /\ (resp.status = StatusOk /\ resp.results = {<<>>}) =>
       /\ ~SomeCallFailed
       /\ calls # <<>>
       /\ calls[Len(calls)] = Call(RpcOfMode(ResolveMode(req.mode)), "ok")
       /\ MatchesNothing(ResolveMode(req.mode), Val(req.q), posts)

\* C8 witness: the embedding was obtained, the store query failed, and the table
\* has posts the query would have found.
C8_Witness ==
  /\ pc = "done"
  /\ Len(calls) = 2
  /\ calls[1].state = "ok"
  /\ calls[2].state = "failed"
  /\ ~MatchesNothing(ResolveMode(req.mode), Val(req.q), posts)

\* C9: in every mode, a request whose query has trimmed length 0 or 1 is ended
\* with a 400 naming the query, and a query of trimmed length 2 or more never
\* gets a query validation error.
C9_MinimumQueryLength ==
  pc # "idle" =>
    /\ TrimmedLength(req.q) < 2 =>
         (pc = "done" /\ resp.status = StatusBadRequest /\ resp.error \in QueryErrors /\ calls = <<>>)
    /\ TrimmedLength(req.q) >= 2 => resp.error \notin QueryErrors

\* C9 witness: a hybrid request whose query has two characters, one of them a
\* blank, is rejected.
C9_Witness ==
  /\ pc = "done"
  /\ req.mode = {"hybrid"}
  /\ req.q # NULL
  /\ Len(Val(req.q)) = 2
  /\ TrimmedLength(req.q) = 1
  /\ resp.status = StatusBadRequest

\* The kind of error a response reports.
ErrorKind ==
  CASE resp.error \in QueryErrors -> "query"
    [] resp.error \in ModeErrors -> "mode"
    [] resp.error \in DownstreamErrors -> "downstream"
    [] OTHER -> "none"

\* C10 as claimed: the answer to a request that names a mode outside the three
\* recognised modes is a 4xx.
C10_UnrecognisedModeIs4xx ==
  (pc = "done" /\ req.mode # NULL /\ Val(req.mode) \notin RecognisedModes) =>
    Is4xx(resp.status)

\* C10 as amended: a request that names a non-empty mode outside the three
\* recognised modes is answered with a 4xx and causes no call; an empty mode,
\* like a missing one, selects bm25. The error of a response tells the three
\* kinds apart: a query error iff the trimmed query is shorter than 2, a mode
\* error iff the query passed and the mode is non-empty and unrecognised, a
\* downstream error (always a 5xx) iff a call failed.
C10_UnrecognisedNonEmptyModeIs4xx ==
  pc # "idle" =>
    LET badMode == req.mode # NULL /\ Val(req.mode) \notin RecognisedModes \cup {""}
    IN  /\ badMode => (pc = "done" /\ Is4xx(resp.status) /\ calls = <<>>)
        /\ (req.mode \in {NULL, {""}} /\ TrimmedLength(req.q) >= 2) =>
             (calls # <<>> /\ calls[1].fn = "search_posts")
        /\ ErrorKind = "query" <=> TrimmedLength(req.q) < 2
        /\ ErrorKind = "mode" <=> (TrimmedLength(req.q) >= 2 /\ badMode)
        /\ ErrorKind = "downstream" <=> SomeCallFailed
        /\ ErrorKind \in {"query", "mode"} => Is4xx(resp.status)
        /\ ErrorKind = "downstream" => Is5xx(resp.status)

\* C10 witness: a request with a valid query and an unrecognised mode, answered
\* with the mode error.
C10_Witness ==
  /\ pc = "done"
  /\ TrimmedLength(req.q) >= 2
  /\ req.mode = {"other"}
  /\ resp.status = StatusBadRequest
  /\ ErrorKind = "mode"

(***************************************************************************)
(* Claims about the calls a request makes                                  *)
(***************************************************************************)
ExternalCalls ==
  {"generateQueryEmbedding", "search_posts", "search_posts_semantic", "search_posts_hybrid"}

CallsMade == {calls[k].fn : k \in DOMAIN calls}

\* C11: a request whose mode is bm25 (named, empty or missing) makes at most one
\* external call, to search_posts: at no point of it has the embedding provider,
\* search_posts_semantic or search_posts_hybrid been called.
C11_LexicalCallsOnlySearchPosts ==
  (pc # "idle" /\ ResolveMode(req.mode) = "bm25") =>
    /\ CallsMade \subseteq {"search_posts"}
    /\ Len(calls) <= 1
    /\ embedding = NULL

\* C11 witness: a bm25 request answered with results, on a table that holds
\* posts with embeddings, after the one call to search_posts.
C11_Witness ==
  /\ pc = "done"
  /\ req.mode = {"bm25"}
  /\ resp.status = StatusOk
  /\ resp.results # {<<>>}
  /\ calls = <<Call("search_posts", "ok")>>
  /\ \E i \in Ids : posts[i].embedding # NULL

\* C12 as claimed: every request that was received is eventually answered, also
\* when an external call of it never returns.
C12_EveryRequestIsAnswered == (pc # "idle") ~> (pc = "done")

(***************************************************************************)
(* Claims about the vector ranker                                          *)
(***************************************************************************)
IsSemanticRun == sql.fn = "search_posts_semantic"

HasEmbedding(id) == posts[id].embedding # NULL

\* The similarity of the post id to the query embedding of the run.
SimilarityOf(id) == 1 - CosineDistance(Val(posts[id].embedding), sql.query_embedding)

\* C13: no row returned by search_posts_semantic and no row of the vector list
\* of search_posts_hybrid is a post whose embedding is NULL; a fused result
\* without an embedding is in the lexical list and its rrf_score is its lexical
\* contribution alone.
C13_NullEmbeddingNeverRanked ==
  /\ IsSemanticRun => \A k \in DOMAIN sql.rows : HasEmbedding(sql.rows[k].id)
  /\ IsHybridRun =>
       /\ \A k \in DOMAIN sql.semantic_results : HasEmbedding(sql.semantic_results[k].id)
       /\ \A k \in DOMAIN sql.rows :
            LET r == sql.rows[k]
            IN  ~HasEmbedding(r.id) =>
                  /\ r.id \in ListIds(sql.bm25_results)
                  /\ RatEq(r.rrf_score, Contribution(sql.bm25_results, r.id))

\* C13 witness: a fused result without an embedding, found by the lexical list,
\* next to a result that the vector list found.
C13_Witness ==
  /\ IsHybridRun
  /\ \E k, l \in DOMAIN sql.rows :
       /\ ~HasEmbedding(sql.rows[k].id)
       /\ sql.rows[l].id \in ListIds(sql.semantic_results)

C17_FusedRowsCarryMetadata ==
  IsHybridRun =>
    \A k \in DOMAIN sql.rows :
      LET r == sql.rows[k]
      IN  /\ r.id \in Ids
          /\ r.title = {posts[r.id].title}
          /\ r.url = {posts[r.id].url}
          /\ r.score = {posts[r.id].score}
          /\ r.created_utc = {posts[r.id].created_utc}

\* C17 witness: three results, one in the lexical list only, one in the vector
\* list only and one in both.
C17_Witness ==
  /\ IsHybridRun
  /\ \E i, j, k \in DOMAIN sql.rows :
       /\ PlaceIn(sql.bm25_results, sql.rows[i].id) > 0
       /\ PlaceIn(sql.semantic_results, sql.rows[i].id) = 0
       /\ PlaceIn(sql.bm25_results, sql.rows[j].id) = 0
       /\ PlaceIn(sql.semantic_results, sql.rows[j].id) > 0
       /\ PlaceIn(sql.bm25_results, sql.rows[k].id) > 0
       /\ PlaceIn(sql.semantic_results, sql.rows[k].id) > 0

(***************************************************************************)
(* Claims about the lexical ranker                                         *)
(***************************************************************************)
IsLexicalRun == sql.fn = "search_posts"

HoldingSomeLexeme(text) ==
  {i \in Ids : \E t \in Lexemes(text) : t \in Vocab /\ posts[i].search_vector[t] > 0}

\* C16 as claimed: the rows of search_posts(search_query) are exactly the posts
\* that hold at least one of the stemmed terms of search_query.
C16_MatchesAnyTerm ==
  (IsLexicalRun /\ Cardinality(HoldingSomeLexeme(sql.search_query)) <= 20) =>
    ListIds(sql.rows) = HoldingSomeLexeme(sql.search_query)

\* The ids of a ranked list, in the order of the list.
IdsInOrder(list) == [k \in DOMAIN list |-> list[k].id]

\* C20 as claimed: for the same text on the same table, the lexical list of
\* search_posts_hybrid (bm25_results by bm25_position) holds the same posts in
\* the same order as the rows search_posts returned.
C20_FusedLexicalListIsLexicalRanker ==
  (IsHybridRun /\ sql.runs = 2 /\ sql.previous.fn = "search_posts") =>
    IdsInOrder(sql.bm25_results) = IdsInOrder(sql.previous.rows)

(***************************************************************************)
(* Claims about the response and the state of a request                    *)
(***************************************************************************)
\* C18: a response with status 200 carries the q parameter exactly as received
\* (untrimmed), the mode of the request (bm25 when the parameter is missing or
\* empty), which is the mode whose stored procedure was called last and
\* succeeded, a result list, and a count equal to the length of that list.
C18_SuccessEchoesRequest ==
  (pc = "done" /\ resp.status = StatusOk) =>
    /\ resp.query = req.q
    /\ resp.mode = {ResolveMode(req.mode)}
    /\ req.mode \in {{m} : m \in RecognisedModes} => resp.mode = req.mode
    /\ calls # <<>>
    /\ calls[Len(calls)] = Call(RpcOfMode(Val(resp.mode)), "ok")
    /\ resp.results # NULL
    /\ resp.count # NULL
    /\ Val(resp.count) = Len(Val(resp.results))

\* C18 witness: a hybrid request whose query has a leading blank, answered with
\* two or more results.
C18_Witness ==
  /\ pc = "done"
  /\ resp.status = StatusOk
  /\ req.mode = {"hybrid"}
  /\ Head(Val(req.q)) = " "
  /\ Val(resp.count) >= 2

\* The responses the request (q, m) can get on the table P, over the outcomes
\* of its external calls.
PossibleResponses(q, m, P) ==
  LET mode == ResolveMode(m)
  IN  IF TrimmedLength(q) = 0
        THEN {ErrorResponse(StatusBadRequest, "Query parameter \"q\" is required")}
      ELSE IF TrimmedLength(q) < 2
        THEN {ErrorResponse(StatusBadRequest, "Query must be at least 2 characters")}
      ELSE IF mode \notin RecognisedModes
        THEN {ErrorResponse(StatusBadRequest, "Invalid mode. Must be: bm25, semantic, or hybrid")}
      ELSE {ErrorResponse(StatusServerError, "Search failed"),
            ErrorResponse(StatusServerError, "Internal server error")}
             \cup {[status |-> StatusOk, error |-> "", query |-> q, mode |-> {mode},
                     count |-> {Len(data)}, results |-> {data}] :
                      data \in UNION {RpcData(P, mode, Val(q), e) : e \in EmbVals}}

PositionsAreContiguous(list, col) == \A k \in DOMAIN list : list[k][col] = k

\* C21 as claimed: in the lexical and in the vector list of a fused run the
\* positions are 1-based and contiguous, a post with a higher score comes first,
\* of two posts with the same score the more popular one comes first, and a
\* second run on the same table with the same arguments gives every post the
\* same position.
C21_PositionsTieBrokenByPopularity ==
  IsHybridRun =>
    LET b == sql.bm25_results
        v == sql.semantic_results
    IN  /\ PositionsAreContiguous(b, "bm25_position")
        /\ PositionsAreContiguous(v, "semantic_position")
        /\ \A k, l \in DOMAIN b :
             k < l => \/ b[k].rank > b[l].rank
                      \/ /\ b[k].rank = b[l].rank
                         /\ posts[b[k].id].score >= posts[b[l].id].score
        /\ \A k, l \in DOMAIN v :
             k < l => \/ v[k].similarity > v[l].similarity
                      \/ /\ v[k].similarity = v[l].similarity
                         /\ posts[v[k].id].score >= posts[v[l].id].score
        /\ (sql.runs = 2 /\ sql.previous.fn = "search_posts_hybrid") =>
             /\ b = sql.previous.bm25_results
             /\ v = sql.previous.semantic_results

\* The values the two list columns of a fused row can have for a post that is
\* in the list: the ts_rank of a post that matches, the similarity of a post
\* with an embedding.
PresentRanks == {SumTf(v, ts) : v \in SearchVectors, ts \in SUBSET Vocab} \ {0}

PresentSimilarities == {1 - CosineDistance(e, q) : e \in EmbVals, q \in EmbVals}

\* C24 as claimed: a fused row of a post that is absent from the lexical list
\* has a bm25_rank no post in that list can have, and a fused row of a post
\* absent from the vector list has a semantic_similarity no post in that list
\* can have; a row of a post that is in a list reports the value it has there.
C24_AbsentIsDistinguishable ==
  IsHybridRun =>
    \A k \in DOMAIN sql.rows :
      LET r == sql.rows[k]
          b == RowWithId(sql.bm25_results, r.id)
          v == RowWithId(sql.semantic_results, r.id)
      IN  /\ IF b = NULL THEN r.bm25_rank \notin PresentRanks
                         ELSE r.bm25_rank = Val(b).rank
          /\ IF v = NULL THEN r.semantic_similarity \notin PresentSimilarities
                         ELSE r.semantic_similarity = Val(v).similarity

(***************************************************************************)
(* Claims about the order of the steps of a fused request                  *)
(***************************************************************************)
IsFusedRequest == pc # "idle" /\ ResolveMode(req.mode) = "hybrid"

\* The place of a part in sql.events (0: not evaluated).
EventPlace(part) ==
  IF Evaluated(part) THEN CHOOSE k \in DOMAIN sql.events : sql.events[k] = part ELSE 0

\* C22: in a hybrid request the embedding call has returned before
\* search_posts_hybrid, and with it the vector query, is started, the vector
\* query uses that embedding, and combined, the fusion, is evaluated only after
\* both bm25_results and semantic_results have been evaluated.
C22_FusedEventOrder ==
  IsFusedRequest =>
    /\ (\E k \in DOMAIN calls : calls[k].fn = "search_posts_hybrid") =>
         (Len(calls) = 2 /\ calls[1] = Call("generateQueryEmbedding", "ok") /\ embedding # NULL)
    /\ sql.fn = "search_posts_hybrid" =>
         (calls[1] = Call("generateQueryEmbedding", "ok")
            /\ sql.query_embedding = Val(embedding))
    /\ Evaluated("combined") =>
         /\ 0 < EventPlace("bm25_results")
         /\ EventPlace("bm25_results") < EventPlace("combined")
         /\ 0 < EventPlace("semantic_results")
         /\ EventPlace("semantic_results") < EventPlace("combined")
         /\ sql.combined = Combined(posts, sql.bm25_results, sql.semantic_results)
    /\ Evaluated("select") =>
         /\ EventPlace("combined") < EventPlace("select")
         /\ [bm25_results |-> sql.bm25_results, semantic_results |-> sql.semantic_results,
             combined |-> sql.combined, rows |-> sql.rows]
              \in search_posts_hybrid(posts, sql.search_query, sql.query_embedding,
                                      sql.match_count)

\* C22 witness: a hybrid request answered with results found by both lists, the
\* vector query having been evaluated before the lexical one.
C22_Witness ==
  /\ IsFusedRequest
  /\ pc = "done"
  /\ resp.status = StatusOk
  /\ sql.events = <<"semantic_results", "bm25_results", "combined", "select">>
  /\ sql.bm25_results # <<>>
  /\ sql.semantic_results # <<>>

\* C25: in a request no external call is started twice, at most two calls are
\* started (the embedding request, then one store query), and a call that
\* failed is the last call of the request, which has ended with a 5xx.
C25_AtMostOneAttempt ==
  /\ Len(calls) <= 2
  /\ \A k, l \in DOMAIN calls : k # l => calls[k].fn # calls[l].fn
  /\ \A k \in DOMAIN calls :
       calls[k].state = "failed" =>
         (k = Len(calls) /\ pc = "done" /\ Is5xx(resp.status))

\* C25 witness: a hybrid request whose store query failed after its embedding
\* call had succeeded; the request has ended and each call was made once.
C25_Witness ==
  /\ pc = "done"
  /\ calls = <<Call("generateQueryEmbedding", "ok"), Call("search_posts_hybrid", "failed")>>
  /\ Is5xx(resp.status)

\* C26: a request answered with a validation error (a 4xx: q missing, blank or
\* shorter than 2, mode unrecognised) has started no call to the embedding
\* provider or to the store, and a request that has started a call has a query
\* and a mode that pass the validation.
C26_RejectedRequestsCallNothing ==
  /\ (pc = "done" /\ (Is4xx(resp.status) \/ resp.error \in QueryErrors \cup ModeErrors)) =>
       (calls = <<>> /\ embedding = NULL)
  /\ (TrimmedLength(req.q) < 2 \/ ResolveMode(req.mode) \notin RecognisedModes) =>
       (calls = <<>> /\ embedding = NULL)
  /\ calls # <<>> =>
       (TrimmedLength(req.q) >= 2 /\ ResolveMode(req.mode) \in RecognisedModes)

\* C26 witness: a hybrid request with a one-character query, rejected, and a
\* table on which a search would have found posts.
C26_Witness ==
  /\ pc = "done"
  /\ req.mode = {"hybrid"}
  /\ TrimmedLength(req.q) = 1
  /\ resp.status = StatusBadRequest
  /\ calls = <<>>
  /\ \E i \in Ids : posts[i].embedding # NULL

\* C23 as claimed: in a hybrid request the lexical query is issued together
\* with the embedding call: while the embedding call is pending, a store query
\* has been started.
C23_LexicalIssuedWithEmbedding ==
  (IsFusedRequest /\ pc = "embedding") =>
    \E k \in DOMAIN calls :
      calls[k].fn \in {"search_posts", "search_posts_semantic", "search_posts_hybrid"}

(***************************************************************************)
(* Claims about fusion with one empty list                                 *)
(***************************************************************************)
\* C30: when the lexical list of a fused run is empty, the fused rows are the
\* posts of the vector list in the order of their positions, cut at
\* match_count; when the vector list is empty, they are the posts of the
\* lexical list in the order of their positions, cut at match_count.
C30_OneEmptyListKeepsOrder ==
  IsHybridRun =>
    /\ sql.bm25_results = <<>> =>
         IdsInOrder(sql.rows) = IdsInOrder(Head_(sql.semantic_results, sql.match_count))
    /\ sql.semantic_results = <<>> =>
         IdsInOrder(sql.rows) = IdsInOrder(Head_(sql.bm25_results, sql.match_count))

\* C30 witness: an empty lexical list, a vector list of three posts and a
\* limit of two: the rows are the first two posts of the vector list.
C30_Witness ==
  /\ IsHybridRun
  /\ sql.bm25_results = <<>>
  /\ Len(sql.semantic_results) = 3
  /\ sql.match_count = 2
  /\ Len(sql.rows) = 2
  /\ sql.rows[1].id = sql.semantic_results[1].id
  /\ sql.rows[2].id = sql.semantic_results[2].id

(***************************************************************************)
(* The embed-posts edge function: claims                                   *)
(***************************************************************************)
\* The posts of P without embedding.
WithoutEmbedding(P) == {i \in DOMAIN P : P[i].embedding = NULL}

\* C27: one invocation of embed-posts selects only posts whose embedding is
\* null, at most BATCH_SIZE of them; no step of it changes a post outside the
\* selection; and the success response reports processed and failed counts
\* whose sum is the number of posts selected (a count the response leaves out
\* is a count of none).
C27_BatchStaysInSelection ==
  [][/\ (job.phase = "idle" /\ job'.phase = "loop") =>
          /\ job'.selected \subseteq WithoutEmbedding(posts)
          /\ Cardinality(job'.selected) <= BatchSize
     /\ \A i \in DOMAIN posts : posts'[i] # posts[i] => i \in job.selected
     /\ (job.phase # "done" /\ job'.phase = "done" /\ job'.response.success) =>
          Val(job'.response.processed) + Val(Coalesce(job'.response.failed, {0}))
            = Cardinality(job'.selected)]_vars

\* C27 witness: an invocation has answered after a full batch of BATCH_SIZE
\* posts, all embedded, while a post outside the batch is still without
\* embedding.
C27_Witness ==
  /\ job.phase = "done"
  /\ Cardinality(job.selected) = BatchSize
  /\ job.response.processed = {BatchSize}
  /\ WithoutEmbedding(posts) # {}
  /\ WithoutEmbedding(posts) \cap job.selected = {}

\* C29: a post whose embedding or update failed does not end the batch. While
\* the loop runs, failed counts exactly the attempted posts still without
\* embedding; when the invocation of a non-empty selection has answered, the
\* answer is a success (status 200), every selected post has been attempted,
\* failed is the number of selected posts still without embedding and
\* processed the number of those with one. A 500 is answered only when no
\* post was selected or attempted, that is when the select failed.
C29_FailureDoesNotStopBatch ==
  LET stillNull == job.selected \cap WithoutEmbedding(posts)
  IN  /\ job.phase = "loop" =>
           job.failed = Cardinality(stillNull \ job.remaining)
      /\ (job.phase = "done" /\ job.selected # {}) =>
           /\ job.response.status = StatusOk
           /\ job.response.success
           /\ job.response.failed = {Cardinality(stillNull)}
           /\ job.response.processed = {Cardinality(job.selected \ stillNull)}
      /\ (job.phase = "done" /\ job.response.status = StatusServerError) =>
           /\ ~job.response.success
           /\ job.selected = {}
           /\ job.processed = 0
           /\ job.failed = 0

\* C29 witness: an invocation has answered success after a batch in which one
\* post failed and the nine others were embedded.
C29_Witness ==
  /\ job.phase = "done"
  /\ job.response.status = StatusOk
  /\ job.response.failed = {1}
  /\ job.response.processed = {BatchSize - 1}
  /\ Cardinality(job.selected \cap WithoutEmbedding(posts)) = 1

\* Post i has been reached by the loop of the running invocation.
Attempted(i) == job.phase = "loop" /\ i \in job.selected \ job.remaining

\* Each embedding or update call that is retried eventually succeeds: a post
\* the loop reaches again and again has, at some time, both calls succeed.
RetriedCallsSucceed ==
  \A i \in Ids : ([]<>Attempted(i)) => <>(i \in job.succeeded)

\* The select of the running invocation returned rows or an empty result.
SelectSucceeded ==
  \/ job.phase = "loop"
  \/ job.phase = "done" /\ job.response.success

\* Every post has an embedding and the invocation, if any, selected and
\* processed no post.
Settled ==
  /\ WithoutEmbedding(posts) = {}
  /\ job.selected = {}
  /\ job.processed = 0
  /\ (job.phase = "done" /\ job.response.success) => job.response.processed = {0}

====
